---- MODULE Spec2Model ----
(***************************************************************************)
(* Model of the unique-request counter (src/main.go).                      *)
(*                                                                         *)
(* Request handlers (RequestHandler) validate an id, insert it into Redis  *)
(* with SETNX and a one minute expiry, and optionally POST to an endpoint. *)
(* One background goroutine (LogUniqueRequests) wakes up on every tick of  *)
(* a one minute ticker, takes the mutex, enumerates the request_id:* keys, *)
(* publishes their number to Kafka, appends it to the log file, deletes    *)
(* the enumerated keys one by one and releases the mutex.                  *)
(*                                                                         *)
(* Time is a discrete clock; every step of a handler or of the aggregator  *)
(* may be separated from the next one by any amount of time.  A call to    *)
(* Redis, Kafka, the log file or the endpoint may fail; a failed Redis     *)
(* command is modelled as not executed.                                    *)
(***************************************************************************)
EXTENDS Integers, Sequences, FiniteSets, TLC

(* ------------------------------ bounds -------------------------------- *)

\* number of requests served (one per handler goroutine)
NumHandlers == 2

\* the clock stops at this time
MaxTime == 4

Handlers == 1..NumHandlers

\* the values of the id query parameter that are submitted
RawIds ==
    { <<>>, <<"7">>, <<"4", "2">>, <<"+", "7">>, <<"a", "b", "c">>,
      <<"9", "2", "2", "3", "3", "7", "2", "0", "3", "6", "8", "5", "4", "7", "7", "5",
        "8", "0", "8">> }

\* the values of the endpoint query parameter that are submitted
Endpoints == { "", "http://callback" }

(* --------------------------- pure functions --------------------------- *)

Digits == <<"0", "1", "2", "3", "4", "5", "6", "7", "8", "9">>

IsDigit(c) == \E d \in 1..10 : Digits[d] = c

DigitVal(c) == (CHOOSE d \in 1..10 : Digits[d] = c) - 1

RECURSIVE DigitsVal(_)
\* the value of a sequence of decimal digits, most significant first (the
\* identifiers submitted are far below the limits of int)
DigitsVal(s) ==
    IF s = <<>> THEN 0
    ELSE DigitsVal(SubSeq(s, 1, Len(s) - 1)) * 10 + DigitVal(s[Len(s)])

\* the decimal digits of the largest int (1<<63 - 1; int has 64 bits)
MaxIntDigits ==
    <<"9", "2", "2", "3", "3", "7", "2", "0", "3", "6", "8", "5", "4", "7", "7", "5",
      "8", "0", "7">>

\* the decimal digits of the magnitude of the smallest int (1<<63)
MinIntDigits ==
    <<"9", "2", "2", "3", "3", "7", "2", "0", "3", "6", "8", "5", "4", "7", "7", "5",
      "8", "0", "8">>

RECURSIVE StripZeros(_)
\* a sequence of digits without its leading zeros
StripZeros(s) == IF Len(s) > 1 /\ s[1] = "0" THEN StripZeros(Tail(s)) ELSE s

\* a <= b for two sequences of digits without leading zeros
DigitsLeq(a, b) ==
    \/ Len(a) < Len(b)
    \/ /\ Len(a) = Len(b)
       /\ \/ a = b
          \/ \E i \in 1..Len(a) :
                /\ DigitVal(a[i]) < DigitVal(b[i])
                /\ \A j \in 1..(i - 1) : a[j] = b[j]

\* strconv.Atoi: an optional sign, then one or more digits (a syntax error
\* otherwise); a value outside the range of int is a range error.  The value
\* returned with an error is not modelled: RequestHandler does not use it.
Atoi(s) ==
    LET body == IF s # <<>> /\ s[1] \in {"+", "-"} THEN Tail(s) ELSE s
        neg  == s # <<>> /\ s[1] = "-"
    IN  IF body = <<>> \/ \E i \in 1..Len(body) : ~IsDigit(body[i])
        THEN [ok |-> FALSE, val |-> 0]
        ELSE IF ~DigitsLeq(StripZeros(body), IF neg THEN MinIntDigits ELSE MaxIntDigits)
        THEN [ok |-> FALSE, val |-> 0]
        ELSE [ok |-> TRUE,
              val |-> IF neg THEN 0 - DigitsVal(body) ELSE DigitsVal(body)]

\* parseID(id) = strconv.Atoi(id)
parseID(s) == Atoi(s)

RECURSIVE NatDigits(_)
NatDigits(n) ==
    IF n < 10 THEN <<Digits[n + 1]>>
    ELSE NatDigits(n \div 10) \o <<Digits[(n % 10) + 1]>>

\* the %d verb of fmt
Itoa(n) == IF n < 0 THEN <<"-">> \o NatDigits(0 - n) ELSE NatDigits(n)

KeyPrefix == "request_id:"

\* fmt.Sprintf("request_id:%d", id)
FmtKey(id) == <<KeyPrefix>> \o Itoa(id)

\* a mistyped glob pattern, "request:*"
MatchesOtherPattern(k) == Len(k) >= 1 /\ k[1] = "request:"

\* the glob pattern "request_id:*" of the KEYS command
MatchesPattern(k) == Len(k) >= 1 /\ k[1] = KeyPrefix

\* fmt.Sprintf("Unique request count in last minute: %d", uniqueCount)
FmtMessage(n) == <<"Unique request count in last minute: ">> \o Itoa(n)

\* fmt.Fprintf(requestLogFile, "Unique request count in last minute: %d\n", n)
FmtLogLine(n) == FmtMessage(n) \o <<"\n">>

(* ------------------------------- state -------------------------------- *)

VARIABLES
    now,          \* the clock
    tickPending,  \* a tick waits in the channel of time.Tick (capacity 1)
    store,        \* Redis: key -> [at |-> time of the SET, ttl |-> expiry]
    removals,     \* history: key -> how many times the key left the store
    hs,           \* the request handlers: locals and position of each
    sinceSnap,    \* history: handlers whose insert came after the last snapshot
    counted,      \* history: during a cycle, the handlers whose insert came
                  \* between the snapshot before and the snapshot of this cycle
    aggPc,        \* position of LogUniqueRequests
    mutex,        \* sync.Mutex: TRUE when locked
    keys,         \* the aggregator's local keys
    uniqueCount,  \* the aggregator's local uniqueCount
    idx,          \* position of the range loop over keys
    aggErr,       \* the aggregator's local err
    delFailed,    \* history: keys of the last snapshot whose DEL failed
    kafka,        \* the messages handed to the Kafka producer
    logFile       \* the lines of request_count.log

vars == <<now, tickPending, store, removals, hs, sinceSnap, counted, aggPc, mutex,
          keys, uniqueCount, idx, aggErr, delFailed, kafka, logFile>>

handlerVars == <<hs, sinceSnap>>
aggVars == <<counted, aggPc, mutex, keys, uniqueCount, idx, aggErr, delFailed, kafka,
            logFile>>

NoResp == [code |-> 0, body |-> ""]
BadRequest == [code |-> 400, body |-> "failed"]
InternalError == [code |-> 500, body |-> "failed"]
Conflict == [code |-> 409, body |-> "failed: Duplicate"]
Ok == [code |-> 200, body |-> "ok"]

\* time.Minute: the clock counts half minutes
Minute == 2

\* an expiry of two minutes given to SETNX
TTLTwoMinutes == 2 * Minute

\* the expiry given to SETNX
TTL == Minute

\* the period of the ticker
TickPeriod == Minute

\* a key is visible at time t while its expiry has not passed (ttl 0: never expires)
LiveAt(st, k, t) ==
    /\ k \in DOMAIN st
    /\ (st[k].ttl = 0 \/ t < st[k].at + st[k].ttl)

Live(k) == LiveAt(store, k, now)

RemovalsOf(k) == IF k \in DOMAIN removals THEN removals[k] ELSE 0

\* the history counter of every key of ks is advanced
Bump(ks) ==
    [k \in DOMAIN removals \cup ks |->
        IF k \in ks THEN RemovalsOf(k) + 1 ELSE removals[k]]

\* SET key value EX ttl, without NX: the key is written whether present or not
SetOverwrite(st, k, t, ttl) ==
    [set |-> TRUE,
     st |-> [x \in DOMAIN st \cup {k} |->
                IF x = k THEN [at |-> t, ttl |-> ttl] ELSE st[x]]]

\* SET key value XX EX ttl: the key is written only when it is present
SetXX(st, k, t, ttl) ==
    IF LiveAt(st, k, t)
    THEN [set |-> TRUE, st |-> [st EXCEPT ![k] = [at |-> t, ttl |-> ttl]]]
    ELSE [set |-> FALSE, st |-> st]

\* SETNX followed by EXPIRE: a call that finds the key starts its expiry again
SetNXThenExpire(st, k, t, ttl) ==
    IF LiveAt(st, k, t)
    THEN [set |-> FALSE, st |-> [st EXCEPT ![k] = [at |-> t, ttl |-> ttl]]]
    ELSE [set |-> TRUE,
          st |-> [x \in DOMAIN st \cup {k} |->
                     IF x = k THEN [at |-> t, ttl |-> ttl] ELSE st[x]]]

\* SET key value NX EX ttl at time t: [set |-> did this call insert, st |-> store after]
SetNX(st, k, t, ttl) ==
    IF LiveAt(st, k, t)
    THEN [set |-> FALSE, st |-> st]
    ELSE [set |-> TRUE,
          st |-> [x \in DOMAIN st \cup {k} |->
                     IF x = k THEN [at |-> t, ttl |-> ttl] ELSE st[x]]]

\* FLUSHDB in place of DEL key: every key is removed
FlushDb(st, k) == [x \in {} |-> st[x]]

\* DEL key
Del(st, k) == [x \in DOMAIN st \ {k} |-> st[x]]

\* the orders in which KEYS may return the keys of S
Orders(S) ==
    { s \in [1..Cardinality(S) -> S] : \A i, j \in 1..Cardinality(S) : s[i] = s[j] => i = j }

Init ==
    /\ now = 0
    /\ tickPending = FALSE
    /\ store = [k \in {} |-> [at |-> 0, ttl |-> 0]]
    /\ removals = [k \in {} |-> 0]
    /\ hs = [h \in Handlers |->
               [pc |-> "idle", idParam |-> <<>>, endpoint |-> "", id |-> 0,
                isUnique |-> FALSE, err |-> "", gen |-> 0, resp |-> NoResp]]
    /\ sinceSnap = {}
    /\ counted = {}
    /\ aggPc = "idle"
    /\ mutex = FALSE
    /\ keys = <<>>
    /\ uniqueCount = 0
    /\ idx = 0
    /\ aggErr = ""
    /\ delFailed = {}
    /\ kafka = <<>>
    /\ logFile = <<>>

(* ------------------------------- clock -------------------------------- *)

\* one clock step passes; the ticker fires at every multiple of its period
\* (a tick is dropped when one is still waiting); keys reaching their expiry
\* stop being visible
Advance ==
    /\ now < MaxTime
    /\ now' = now + 1
    /\ tickPending' = (tickPending \/ (now + 1) % TickPeriod = 0)
    /\ removals' = Bump({k \in DOMAIN store : Live(k) /\ ~LiveAt(store, k, now + 1)})
    /\ UNCHANGED <<store, handlerVars, aggVars>>

(* -------------------------- request handlers -------------------------- *)

\* RequestHandler up to the call of trackUniqueRequest: the id parameter is
\* read and parsed.  Requests are numbered in the order of their arrival.
Receive(h, idParam) ==
    /\ hs[h].pc = "idle"
    /\ \A g \in Handlers : g < h => hs[g].pc # "idle"
    /\ LET p == parseID(idParam)
       IN  hs' = [hs EXCEPT ![h] =
                    IF idParam = <<>> \/ ~p.ok
                    THEN [@ EXCEPT !.pc = "done", !.idParam = idParam,
                                   !.err = "parse", !.resp = BadRequest]
                    ELSE [@ EXCEPT !.pc = "track", !.idParam = idParam,
                                   !.id = p.val]]
    /\ UNCHANGED <<now, tickPending, store, removals, sinceSnap, aggVars>>

\* trackUniqueRequest returns an error after the key has been written
TrackFailInserted(h) ==
    /\ hs[h].pc = "track"
    /\ store' = SetNX(store, FmtKey(hs[h].id), now, TTL).st
    /\ hs' = [hs EXCEPT ![h] = [@ EXCEPT !.pc = "done", !.err = "redis",
                                         !.resp = InternalError]]
    /\ UNCHANGED <<now, tickPending, removals, sinceSnap, aggVars>>

\* trackUniqueRequest returns an error: 500
TrackFail(h) ==
    /\ hs[h].pc = "track"
    /\ hs' = [hs EXCEPT ![h] = [@ EXCEPT !.pc = "done", !.err = "redis",
                                         !.resp = InternalError]]
    /\ UNCHANGED <<now, tickPending, store, removals, sinceSnap, aggVars>>

\* the handler takes the aggregator's mutex around its SETNX
TrackUnderMutex(h, endpoint) ==
    /\ hs[h].pc = "track"
    /\ ~mutex
    /\ LET key == FmtKey(hs[h].id)
           r   == SetNX(store, key, now, TTL)
       IN  /\ store' = r.st
           /\ ~r.set => endpoint = ""
           /\ hs' = [hs EXCEPT ![h] =
                       [@ EXCEPT !.isUnique = r.set,
                                 !.gen = RemovalsOf(key),
                                 !.endpoint = endpoint,
                                 !.pc = IF r.set /\ endpoint # "" THEN "notify" ELSE "done",
                                 !.resp = IF ~r.set THEN Conflict
                                          ELSE IF endpoint # "" THEN NoResp ELSE Ok]]
           /\ sinceSnap' = IF r.set THEN sinceSnap \cup {h} ELSE sinceSnap
    /\ UNCHANGED <<now, tickPending, removals, aggVars>>

\* trackUniqueRequest returns the result of SETNX: a duplicate is answered
\* 409; for a new id the endpoint parameter is read, and the request goes on
\* to the endpoint, or is answered ok when there is none
Track(h, endpoint) ==
    /\ hs[h].pc = "track"
    /\ LET key == FmtKey(hs[h].id)
           r   == SetNX(store, key, now, TTL)
       IN  /\ store' = r.st
           /\ ~r.set => endpoint = ""
           /\ hs' = [hs EXCEPT ![h] =
                       [@ EXCEPT !.isUnique = r.set,
                                 !.gen = RemovalsOf(key),
                                 !.endpoint = endpoint,
                                 !.pc = IF r.set /\ endpoint # "" THEN "notify" ELSE "done",
                                 !.resp = IF ~r.set THEN Conflict
                                          ELSE IF endpoint # "" THEN NoResp ELSE Ok]]
           /\ sinceSnap' = IF r.set THEN sinceSnap \cup {h} ELSE sinceSnap
    /\ UNCHANGED <<now, tickPending, removals, aggVars>>

\* triggerEndpoint succeeds: ok
Notify(h) ==
    /\ hs[h].pc = "notify"
    /\ hs' = [hs EXCEPT ![h] = [@ EXCEPT !.pc = "done", !.resp = Ok]]
    /\ UNCHANGED <<now, tickPending, store, removals, sinceSnap, aggVars>>

\* triggerEndpoint returns an error and the key of the request is deleted
\* before the 500 is sent
NotifyFailRollback(h) ==
    /\ hs[h].pc = "notify"
    /\ store' = Del(store, FmtKey(hs[h].id))
    /\ removals' = IF Live(FmtKey(hs[h].id)) THEN Bump({FmtKey(hs[h].id)}) ELSE removals
    /\ hs' = [hs EXCEPT ![h] = [@ EXCEPT !.pc = "done", !.err = "post",
                                         !.resp = InternalError]]
    /\ UNCHANGED <<now, tickPending, sinceSnap, aggVars>>

\* triggerEndpoint returns an error: 500
NotifyFail(h) ==
    /\ hs[h].pc = "notify"
    /\ hs' = [hs EXCEPT ![h] = [@ EXCEPT !.pc = "done", !.err = "post",
                                         !.resp = InternalError]]
    /\ UNCHANGED <<now, tickPending, store, removals, sinceSnap, aggVars>>

(* ----------------------------- aggregator ----------------------------- *)

\* for range time.Tick(time.Minute): the next tick is received
TickRecv ==
    /\ aggPc = "idle"
    /\ tickPending
    /\ tickPending' = FALSE
    /\ aggPc' = "lock"
    /\ UNCHANGED <<now, store, removals, handlerVars, counted, mutex, keys, uniqueCount,
                   idx, aggErr, delFailed, kafka, logFile>>

\* the loop body is entered without the mutex being taken
LockNoAcquire ==
    /\ aggPc = "lock"
    /\ aggPc' = "keys"
    /\ UNCHANGED <<now, tickPending, store, removals, handlerVars, counted, mutex, keys,
                   uniqueCount, idx, aggErr, delFailed, kafka, logFile>>

\* mutex.Lock()
Lock ==
    /\ aggPc = "lock"
    /\ ~mutex
    /\ mutex' = TRUE
    /\ aggPc' = "keys"
    /\ UNCHANGED <<now, tickPending, store, removals, handlerVars, counted, keys,
                   uniqueCount, idx, aggErr, delFailed, kafka, logFile>>

\* KEYS request_id:* fails and the loop continues with the mutex still locked
KeysFailNoUnlock ==
    /\ aggPc = "keys"
    /\ aggErr' = "keys"
    /\ aggPc' = "idle"
    /\ UNCHANGED <<now, tickPending, store, removals, handlerVars, counted, mutex, keys,
                   uniqueCount, idx, delFailed, kafka, logFile>>

\* KEYS request_id:* fails: the mutex is released and the loop continues
KeysFail ==
    /\ aggPc = "keys"
    /\ aggErr' = "keys"
    /\ mutex' = FALSE
    /\ aggPc' = "idle"
    /\ UNCHANGED <<now, tickPending, store, removals, handlerVars, counted, keys,
                   uniqueCount, idx, delFailed, kafka, logFile>>

\* a paged enumeration in place of KEYS: only the first page, of one key, is
\* read
KeysFirstPage ==
    /\ aggPc = "keys"
    /\ \E s \in Orders({k \in DOMAIN store : Live(k) /\ MatchesPattern(k)}) :
          /\ keys' = IF Len(s) > 1 THEN SubSeq(s, 1, 1) ELSE s
          /\ uniqueCount' = IF Len(s) > 1 THEN 1 ELSE Len(s)
    /\ aggErr' = ""
    /\ counted' = sinceSnap
    /\ sinceSnap' = {}
    /\ delFailed' = {}
    /\ aggPc' = "produce"
    /\ UNCHANGED <<now, tickPending, store, removals, hs, mutex, idx, kafka, logFile>>

\* KEYS request_id:* returns the visible keys, in some order; uniqueCount := len(keys)
Keys ==
    /\ aggPc = "keys"
    /\ \E s \in Orders({k \in DOMAIN store : Live(k) /\ MatchesPattern(k)}) :
          /\ keys' = s
          /\ uniqueCount' = Len(s)
    /\ aggErr' = ""
    /\ counted' = sinceSnap
    /\ sinceSnap' = {}
    /\ delFailed' = {}
    /\ aggPc' = "produce"
    /\ UNCHANGED <<now, tickPending, store, removals, hs, mutex, idx, kafka, logFile>>

\* kafkaProducer.Produce is called a second time with the same message
ProduceTwice ==
    /\ aggPc = "produce"
    /\ kafka' = Append(Append(kafka, FmtMessage(uniqueCount)), FmtMessage(uniqueCount))
    /\ aggErr' = ""
    /\ aggPc' = "log"
    /\ UNCHANGED <<now, tickPending, store, removals, handlerVars, counted, mutex, keys,
                   uniqueCount, idx, delFailed, logFile>>

\* kafkaProducer.Produce succeeds
Produce ==
    /\ aggPc = "produce"
    /\ kafka' = Append(kafka, FmtMessage(uniqueCount))
    /\ aggErr' = ""
    /\ aggPc' = "log"
    /\ UNCHANGED <<now, tickPending, store, removals, handlerVars, counted, mutex, keys,
                   uniqueCount, idx, delFailed, logFile>>

\* kafkaProducer.Produce fails and the cycle is given up as after a failed
\* KEYS: the mutex is released and the loop continues
ProduceFailAbort ==
    /\ aggPc = "produce"
    /\ aggErr' = "kafka"
    /\ mutex' = FALSE
    /\ aggPc' = "idle"
    /\ UNCHANGED <<now, tickPending, store, removals, handlerVars, counted, keys,
                   uniqueCount, idx, delFailed, kafka, logFile>>

\* kafkaProducer.Produce fails: logged only
ProduceFail ==
    /\ aggPc = "produce"
    /\ aggErr' = "kafka"
    /\ aggPc' = "log"
    /\ UNCHANGED <<now, tickPending, store, removals, handlerVars, counted, mutex, keys,
                   uniqueCount, idx, delFailed, kafka, logFile>>

\* where the aggregator goes after a step of the cleanup loop that leaves i keys done
AfterKey(i) == IF i >= Len(keys) THEN "unlock" ELSE "del"

\* fmt.Fprintf(requestLogFile, ...) succeeds
WriteLog ==
    /\ aggPc = "log"
    /\ logFile' = Append(logFile, FmtLogLine(uniqueCount))
    /\ aggErr' = ""
    /\ idx' = 0
    /\ aggPc' = AfterKey(0)
    /\ UNCHANGED <<now, tickPending, store, removals, handlerVars, counted, mutex, keys,
                   uniqueCount, delFailed, kafka>>

\* fmt.Fprintf(requestLogFile, ...) fails: logged only
WriteLogFail ==
    /\ aggPc = "log"
    /\ aggErr' = "file"
    /\ idx' = 0
    /\ aggPc' = AfterKey(0)
    /\ UNCHANGED <<now, tickPending, store, removals, handlerVars, counted, mutex, keys,
                   uniqueCount, delFailed, kafka, logFile>>

\* a blanket clear in place of the DEL of one snapshot key: every key that
\* matches the pattern when the step runs is deleted
DelKeyWildcard ==
    /\ aggPc = "del"
    /\ LET gone == {k \in DOMAIN store : MatchesPattern(k)}
       IN  /\ store' = [x \in DOMAIN store \ gone |-> store[x]]
           /\ removals' = Bump({k \in gone : Live(k)})
    /\ idx' = idx + 1
    /\ aggPc' = AfterKey(idx + 1)
    /\ UNCHANGED <<now, tickPending, handlerVars, counted, mutex, keys, uniqueCount,
                   aggErr, delFailed, kafka, logFile>>

\* redisClient.Del(ctx, key) for the next key of the snapshot
DelKey ==
    /\ aggPc = "del"
    /\ LET key == keys[idx + 1]
       IN  /\ store' = Del(store, key)
           /\ removals' = IF Live(key) THEN Bump({key}) ELSE removals
    /\ idx' = idx + 1
    /\ aggPc' = AfterKey(idx + 1)
    /\ UNCHANGED <<now, tickPending, handlerVars, counted, mutex, keys, uniqueCount,
                   aggErr, delFailed, kafka, logFile>>

\* redisClient.Del(ctx, key) fails and the cleanup loop is left
DelKeyFailBreak ==
    /\ aggPc = "del"
    /\ delFailed' = delFailed \cup {keys[idx + 1]}
    /\ idx' = idx + 1
    /\ aggPc' = "unlock"
    /\ UNCHANGED <<now, tickPending, store, removals, handlerVars, counted, mutex, keys,
                   uniqueCount, aggErr, kafka, logFile>>

\* redisClient.Del(ctx, key) fails: the result is ignored
DelKeyFail ==
    /\ aggPc = "del"
    /\ delFailed' = delFailed \cup {keys[idx + 1]}
    /\ idx' = idx + 1
    /\ aggPc' = AfterKey(idx + 1)
    /\ UNCHANGED <<now, tickPending, store, removals, handlerVars, counted, mutex, keys,
                   uniqueCount, aggErr, kafka, logFile>>

\* the loop body ends without mutex.Unlock()
UnlockForgotten ==
    /\ aggPc = "unlock"
    /\ aggPc' = "idle"
    /\ keys' = <<>>
    /\ uniqueCount' = 0
    /\ idx' = 0
    /\ aggErr' = ""
    /\ counted' = {}
    /\ UNCHANGED <<now, tickPending, store, removals, handlerVars, mutex, delFailed, kafka,
                   logFile>>

\* mutex.Unlock() at the end of the loop body; the locals of the body go
\* out of scope
Unlock ==
    /\ aggPc = "unlock"
    /\ mutex' = FALSE
    /\ aggPc' = "idle"
    /\ keys' = <<>>
    /\ uniqueCount' = 0
    /\ idx' = 0
    /\ aggErr' = ""
    /\ counted' = {}
    /\ UNCHANGED <<now, tickPending, store, removals, handlerVars, delFailed, kafka,
                   logFile>>

(* ---------------------------- specification --------------------------- *)

HandlerStep ==
    \E h \in Handlers :
        \/ \E idParam \in RawIds : Receive(h, idParam)
        \/ \E endpoint \in Endpoints : Track(h, endpoint)
        \/ TrackFail(h)
        \/ Notify(h)
        \/ NotifyFail(h)

AggregatorStep ==
    \/ TickRecv
    \/ Lock
    \/ Keys
    \/ KeysFail
    \/ Produce
    \/ ProduceFail
    \/ WriteLog
    \/ WriteLogFail
    \/ DelKey
    \/ DelKeyFail
    \/ Unlock

Next == Advance \/ HandlerStep \/ AggregatorStep

Spec == Init /\ [][Next]_vars

\* The goroutine of LogUniqueRequests is scheduled again and again, and every
\* call it makes (Lock on a mutex nobody else takes, KEYS, Produce, Fprintf,
\* DEL, Unlock) returns, with or without an error: a step of the aggregator
\* that can be taken is eventually taken.  Nothing is assumed about the
\* clock or about the requests.
FairSpec == Spec /\ WF_vars(AggregatorStep)

(* ------------------------------- claims ------------------------------- *)

KeyOf(h) == FmtKey(hs[h].id)

\* the SETNX of h's request has returned without an error
Called(h) == hs[h].pc \in {"notify", "done"} /\ hs[h].err \notin {"parse", "redis"}

\* this step is the return of h's SETNX without an error
TrackReturns(h) == hs[h].pc = "track" /\ hs'[h].pc # "track" /\ hs'[h].err # "redis"

\* the record h inserted is still the one in the store
HoldsRecord(h) ==
    /\ Called(h)
    /\ hs[h].isUnique
    /\ hs[h].gen = RemovalsOf(KeyOf(h))
    /\ Live(KeyOf(h))

\* the calls for the same identifier as h's with no expiry or delete of the
\* key between them and h's
Batch(h) ==
    { g \in Handlers : Called(g) /\ hs[g].id = hs[h].id /\ hs[g].gen = hs[h].gen }

\* C1: among the requests that submit one identifier with no expiry or delete
\* of its key between their store calls, in whatever order the calls are
\* served, exactly one passes the uniqueness check (SETNX returned true, the
\* request is not answered Duplicate) and every other one is answered
\* 409 Duplicate.
C1_ExactlyOneAccepted ==
    \A h \in Handlers :
        Called(h) =>
            /\ Cardinality({ g \in Batch(h) : hs[g].isUnique }) = 1
            /\ \A g \in Batch(h) :
                  IF hs[g].isUnique
                  THEN hs[g].resp # Conflict
                  ELSE hs[g].pc = "done" /\ hs[g].resp = Conflict

\* two requests for one identifier in flight together: the second is answered
\* Duplicate while the first, which inserted, has not been answered yet
C1_Witness ==
    \E g, h \in Handlers :
        /\ g # h
        /\ hs[g].pc = "notify" /\ hs[g].isUnique
        /\ hs[h].pc = "done" /\ hs[h].resp = Conflict
        /\ hs[h].id = hs[g].id /\ hs[h].gen = hs[g].gen

\* C2: a trackUniqueRequest call made while the key is absent returns true,
\* and a call made after an accepted call for the same identifier, with no
\* expiry and no delete of the key since, returns false.
C2_FirstTrueThenFalse ==
    [][\A h \in Handlers :
          TrackReturns(h) =>
              /\ ~Live(KeyOf(h)) => hs'[h].isUnique
              /\ (\E g \in Handlers \ {h} :
                      /\ Called(g) /\ hs[g].isUnique
                      /\ hs[g].id = hs[h].id
                      /\ hs[g].gen = RemovalsOf(KeyOf(h)))
                    => ~hs'[h].isUnique]_vars

\* a first request was answered ok, and a later one for the same identifier,
\* submitted as another string, was answered Duplicate
C2_Witness ==
    \E g, h \in Handlers :
        /\ g < h
        /\ hs[g].pc = "done" /\ hs[g].resp = Ok
        /\ hs[h].pc = "done" /\ hs[h].resp = Conflict /\ ~hs[h].isUnique
        /\ hs[h].id = hs[g].id /\ hs[h].idParam # hs[g].idParam
        /\ hs[h].gen = hs[g].gen

\* C3: a request whose identifier was accepted and whose notification failed
\* is still answered with success.
C3_NotifyFailureKeepsOutcome ==
    \A h \in Handlers :
        (hs[h].pc = "done" /\ hs[h].isUnique /\ hs[h].err = "post")
            => hs[h].resp = Ok

\* the aggregator has its snapshot and has not released the mutex yet
InCycle == aggPc \in {"produce", "log", "del", "unlock"}

\* the aggregator is between mutex.Lock() and mutex.Unlock()
InCriticalSection == aggPc \in {"keys", "produce", "log", "del", "unlock"}

\* this step is a successful KEYS call
SnapshotTaken == aggPc = "keys" /\ aggPc' = "produce"

SnapshotKeys == { keys[i] : i \in 1..Len(keys) }

\* C4 as stated: the count of a cycle is the number of distinct identifiers
\* accepted since the snapshot of the cycle before (or since the start), and
\* the key of each of them is absent when the cycle completes.
C4_CountIsAcceptedSincePrevious ==
    InCycle =>
        /\ uniqueCount = Cardinality({ hs[h].id : h \in counted })
        /\ aggPc = "unlock" => \A h \in counted : ~Live(KeyOf(h))

\* C4 as amended: the count of a cycle is the number of distinct identifiers
\* whose accepted record is in the store, neither expired nor deleted, when
\* the snapshot is taken; and when the cycle completes a snapshot key is in
\* the store only if its DEL failed or it was inserted again after the
\* snapshot.
C4_CountIsLiveAtSnapshot ==
    /\ [][SnapshotTaken =>
             uniqueCount' = Cardinality({ hs[h].id : h \in { g \in Handlers : HoldsRecord(g) } })]_vars
    /\ [](aggPc = "unlock" =>
             \A k \in SnapshotKeys :
                 Live(k) => \/ k \in delFailed
                            \/ \E h \in sinceSnap : HoldsRecord(h) /\ KeyOf(h) = k)

\* a cycle that counted two identifiers completes with both keys deleted
C4_Witness ==
    /\ aggPc = "unlock"
    /\ uniqueCount = 2
    /\ Cardinality(counted) = 2
    /\ \A k \in SnapshotKeys : k \notin DOMAIN store

\* C5 as stated: the record of an identifier accepted after the snapshot of a
\* cycle is not removed while that cycle runs, unless it expires.
C5_LateInsertSurvives ==
    [][\A h \in Handlers :
          (InCycle /\ h \in sinceSnap /\ HoldsRecord(h) /\ now' = now)
              => HoldsRecord(h)']_vars

\* C5 as amended: the record of an identifier accepted after the snapshot of
\* a cycle, whose key is not in that snapshot, is not removed while that cycle
\* runs, unless it expires; and a snapshot holds the key of every record in
\* the store.
C5_LateInsertOutsideSnapshotSurvives ==
    /\ [][\A h \in Handlers :
             (InCycle /\ h \in sinceSnap /\ HoldsRecord(h)
                 /\ KeyOf(h) \notin SnapshotKeys /\ now' = now)
                 => HoldsRecord(h)']_vars
    /\ [][SnapshotTaken =>
             \A h \in Handlers :
                 HoldsRecord(h) => \E i \in 1..Len(keys') : keys'[i] = KeyOf(h)]_vars

\* a cycle has deleted its snapshot and a record inserted after the snapshot,
\* under another key, is still in the store
C5_Witness ==
    /\ aggPc = "unlock"
    /\ Len(keys) >= 1
    /\ \A k \in SnapshotKeys : k \notin DOMAIN store
    /\ \E h \in sinceSnap : HoldsRecord(h) /\ KeyOf(h) \notin SnapshotKeys

\* the response C6 gives a finished request
Expected(h) ==
    IF hs[h].idParam = <<>> \/ ~parseID(hs[h].idParam).ok THEN BadRequest
    ELSE IF hs[h].err = "redis" THEN InternalError
    ELSE IF ~hs[h].isUnique THEN Conflict
    ELSE Ok

\* C6: the response of a request is decided by its id parameter, by whether
\* the store call failed and by whether the key was present, and by nothing
\* else.
C6_FourWayOutcome ==
    \A h \in Handlers : hs[h].pc = "done" => hs[h].resp = Expected(h)

\* C7: a cycle whose KEYS call fails publishes nothing, appends no line,
\* deletes no key and releases the mutex, and the aggregator is back at its
\* ticker: the next tick is received and the mutex can be taken again.
C7_FailedEnumerationSkipsCycle ==
    /\ [][(aggPc = "keys" /\ aggPc' # "keys" /\ aggErr' = "keys") =>
             /\ kafka' = kafka
             /\ logFile' = logFile
             /\ store' = store
             /\ ~mutex'
             /\ aggPc' = "idle"]_vars
    /\ []((aggPc = "idle" /\ tickPending) => ENABLED TickRecv)
    /\ [](aggPc = "lock" => ENABLED Lock)

\* after a skipped cycle, with a key in the store and nothing published, the
\* aggregator has taken the mutex again for the next cycle
C7_Witness ==
    /\ aggPc = "keys"
    /\ aggErr = "keys"
    /\ mutex
    /\ kafka = <<>> /\ logFile = <<>>
    /\ \E k \in DOMAIN store : Live(k)

\* C8: a cycle is between its snapshot and the end of its delete step only
\* with the mutex locked, and the one aggregator goroutine runs one cycle at
\* a time: a tick that arrives during a cycle waits in the channel.
C8_OneCycleInCriticalSection ==
    /\ InCriticalSection => mutex
    /\ mutex => ~ENABLED TickRecv /\ ~ENABLED Lock

\* a cycle is still deleting when the next tick has arrived
C8_Witness ==
    /\ aggPc = "del"
    /\ idx >= 1
    /\ tickPending
    /\ mutex

\* C9: while the aggregator holds the mutex, every step of a request handler
\* can be taken.
C9_HandlersNeverWait ==
    mutex =>
        \A h \in Handlers :
            /\ (hs[h].pc = "idle" /\ \A g \in Handlers : g < h => hs[g].pc # "idle")
                  => ENABLED (\E idParam \in RawIds : Receive(h, idParam))
            /\ hs[h].pc = "track"
                  => ENABLED (\E endpoint \in Endpoints : Track(h, endpoint))
            /\ hs[h].pc = "notify" => ENABLED Notify(h)

\* a request was accepted and answered while a cycle was deleting
C9_Witness ==
    /\ mutex
    /\ aggPc = "del"
    /\ \E h \in sinceSnap : hs[h].pc = "done" /\ hs[h].resp = Ok

\* C10: a submission made when the record of its identifier is still there
\* (no cycle deleted it) and a minute or more has passed since the insert is
\* accepted, not answered Duplicate.
C10_AcceptedAgainAfterExpiry ==
    [][\A h \in Handlers :
          (/\ TrackReturns(h)
           /\ KeyOf(h) \in DOMAIN store
           /\ now >= store[KeyOf(h)].at + Minute)
              => hs'[h].isUnique /\ hs'[h].resp # Conflict]_vars

\* one identifier was accepted twice, the second time after the expiry of the
\* first record, and the aggregator has not run at all
C10_Witness ==
    /\ aggPc = "idle" /\ tickPending /\ now < 2 * TickPeriod
    /\ \E g, h \in Handlers :
          /\ g < h
          /\ hs[g].pc = "done" /\ hs[g].resp = Ok
          /\ hs[h].pc = "done" /\ hs[h].resp = Ok
          /\ hs[h].id = hs[g].id
          /\ hs[h].gen = hs[g].gen + 1

\* the requests that passed the uniqueness check
Accepted == { h \in Handlers : Called(h) /\ hs[h].isUnique }

\* the number of distinct identifiers accepted
AcceptedIds == Cardinality({ hs[h].id : h \in Accepted })

\* the run has been quiescent so far: no record has expired or been deleted,
\* and no identifier was accepted after the snapshot
QuiescentSoFar == sinceSnap = {} /\ \A h \in Accepted : HoldsRecord(h)

\* C11: in a quiescent run, where k distinct identifiers were accepted, none
\* of their records expired, nothing was accepted after the snapshot and no
\* DEL failed, the cycle counts k, the message it publishes and the line it
\* appends both carry k, and no request_id key is visible when it completes.
C11_QuiescentCycleReportsAll ==
    /\ []((aggPc \in {"produce", "log"} /\ QuiescentSoFar) =>
             uniqueCount = AcceptedIds /\ Len(keys) = AcceptedIds)
    /\ [][(aggPc = "produce" /\ QuiescentSoFar /\ kafka' # kafka) =>
             kafka' = Append(kafka, <<"Unique request count in last minute: ">>
                                      \o Itoa(AcceptedIds))]_vars
    /\ [][(aggPc = "log" /\ QuiescentSoFar /\ logFile' # logFile) =>
             logFile' = Append(logFile, <<"Unique request count in last minute: ">>
                                          \o Itoa(AcceptedIds) \o <<"\n">>)]_vars
    /\ []((aggPc = "unlock" /\ sinceSnap = {} /\ delFailed = {}) =>
             \A k \in DOMAIN store : MatchesPattern(k) => ~Live(k))

\* two identifiers were accepted, and the first cycle, during which nothing
\* arrived, expired or failed, reported 2 to both sinks and emptied the store
C11_Witness ==
    /\ aggPc = "unlock"
    /\ sinceSnap = {} /\ delFailed = {}
    /\ AcceptedIds = 2
    /\ \A h \in Accepted : RemovalsOf(KeyOf(h)) = 1 /\ hs[h].gen = 0
    /\ kafka = <<FmtMessage(2)>>
    /\ logFile = <<FmtLogLine(2)>>
    /\ DOMAIN store = {}

\* this step is one iteration of the cleanup loop
DeleteStep == aggPc = "del" /\ idx' = idx + 1

\* C12: an iteration of the cleanup loop leaves every key that is not in the
\* snapshot of its cycle in the store, with the record it had; nothing is
\* added, and the one key that may go is the snapshot key of the iteration.
C12_DeleteOnlySnapshotKeys ==
    [][DeleteStep =>
          /\ \A k \in DOMAIN store :
                k \notin SnapshotKeys => k \in DOMAIN store' /\ store'[k] = store[k]
          /\ DOMAIN store' \subseteq DOMAIN store
          /\ DOMAIN store \ DOMAIN store' \subseteq {keys[idx + 1]}]_vars

\* the one key of the snapshot has been deleted and a key that is not in the
\* snapshot, inserted while the cycle ran, is in the store
C12_Witness ==
    /\ aggPc = "unlock"
    /\ idx = 1
    /\ keys[1] \notin DOMAIN store
    /\ \E k \in DOMAIN store : MatchesPattern(k) /\ Live(k) /\ k \notin SnapshotKeys

\* the keys a client of the store can see
Tracked == { k \in DOMAIN store : Live(k) }

\* this step is the one of h's request in which SETNX inserts
AcceptStep(h) == hs[h].pc = "track" /\ hs'[h].pc # "track" /\ hs'[h].isUnique

\* C13: a step of a request that is rejected as invalid, answered Duplicate
\* or failed by the store leaves the store as it is; the step in which a
\* request passes the uniqueness check adds the key "request_id:<id>", which
\* was not visible, and changes no other key; and a request answered 400 has
\* made no store call.
C13_OnlyAcceptedInserts ==
    /\ [][\A h \in Handlers :
             hs'[h] # hs[h] =>
                 IF AcceptStep(h)
                 THEN LET key == <<"request_id:">> \o Itoa(hs[h].id)
                      IN  /\ key \notin Tracked
                          /\ Tracked' = Tracked \cup {key}
                          /\ \A k \in DOMAIN store \ {key} :
                                k \in DOMAIN store' /\ store'[k] = store[k]
                 ELSE store' = store /\ Tracked' = Tracked]_vars
    /\ [](\A h \in Handlers :
             (hs[h].pc = "done" /\ hs[h].resp = BadRequest) =>
                 ~Called(h) /\ ~hs[h].isUnique /\ hs[h].err = "parse")

\* of two requests one, whose id is the integer one above the largest int,
\* was rejected as invalid and the other was accepted: the store holds the
\* key of the second and nothing else
C13_Witness ==
    \E g, h \in Handlers :
        /\ hs[g].pc = "done" /\ hs[g].resp = BadRequest
        /\ hs[g].idParam = MinIntDigits
        /\ hs[h].pc = "done" /\ hs[h].isUnique /\ hs[h].id = 42
        /\ DOMAIN store = {<<"request_id:", "4", "2">>}
        /\ Tracked = DOMAIN store

\* C14: a Produce call that fails is followed by the append to the log file,
\* and an append that fails, like one that succeeds, by the cleanup loop over
\* the whole snapshot and then by the release of the mutex, which is held
\* until then; once a cycle is past a sink it does not come back to it, so a
\* failed call is not repeated in the cycle.
C14_SinkFailureDoesNotAbort ==
    /\ [][(aggPc = "produce" /\ aggPc' # "produce" /\ kafka' = kafka) =>
             /\ aggErr' = "kafka"
             /\ aggPc' = "log" /\ mutex' /\ keys' = keys /\ uniqueCount' = uniqueCount]_vars
    /\ [][(aggPc = "log" /\ aggPc' # "log" /\ logFile' = logFile) =>
             /\ aggErr' = "file"
             /\ aggPc' = (IF keys = <<>> THEN "unlock" ELSE "del")
             /\ idx' = 0 /\ mutex' /\ keys' = keys]_vars
    /\ [](aggPc = "del" => mutex /\ idx < Len(keys) /\ ENABLED DelKey)
    /\ [](aggPc = "unlock" => mutex /\ idx = Len(keys) /\ ENABLED Unlock)
    /\ [][(aggPc = "unlock" /\ aggPc' # "unlock") => (aggPc' = "idle" /\ ~mutex')]_vars
    /\ [][(aggPc \in {"log", "del", "unlock"}) => (aggPc' # "produce" /\ kafka' = kafka)]_vars
    /\ [][(aggPc \in {"del", "unlock"}) => (aggPc' # "log" /\ logFile' = logFile)]_vars

\* in the first cycle with a snapshot both sinks failed, and the cycle has
\* deleted the two keys of its snapshot and is about to release the mutex
C14_Witness ==
    /\ aggPc = "unlock"
    /\ aggErr = "file"
    /\ kafka = <<>> /\ logFile = <<>>
    /\ Len(keys) = 2 /\ idx = 2
    /\ delFailed = {}
    /\ \A k \in SnapshotKeys : k \notin DOMAIN store

\* C15: an iteration of the cleanup loop whose DEL fails is followed by the
\* iteration for the next key of the snapshot, or by the release of the mutex
\* when it was the last key; the keys after a failed one are deleted like any
\* other, so when the loop ends a snapshot key whose DEL did not fail is in
\* the store only if it was inserted again after the snapshot.
C15_DeleteBestEffortPerKey ==
    /\ [][(DeleteStep /\ delFailed' # delFailed) =>
             /\ store' = store
             /\ keys' = keys /\ mutex'
             /\ aggPc' = (IF idx + 1 < Len(keys) THEN "del" ELSE "unlock")]_vars
    /\ []((aggPc = "del" /\ delFailed # {}) =>
             /\ idx < Len(keys)
             /\ ENABLED (DelKey /\ store' = Del(store, keys[idx + 1])))
    /\ []((aggPc = "unlock" /\ delFailed # {}) =>
             /\ ENABLED (Unlock /\ ~mutex')
             /\ \A i \in 1..Len(keys) :
                   (keys[i] \notin delFailed /\ Live(keys[i])) =>
                       \E h \in sinceSnap : HoldsRecord(h) /\ KeyOf(h) = keys[i])

\* the DEL of the first key of a snapshot failed and the second key has been
\* deleted all the same
C15_Witness ==
    /\ aggPc = "unlock"
    /\ Len(keys) = 2
    /\ delFailed = {keys[1]}
    /\ Live(keys[1])
    /\ keys[2] \notin DOMAIN store

\* the aggregator goes through the statements of a cycle in their order,
\* each of them once; the sinks change only at their statement; and no DEL is
\* issued before both sinks have been dealt with
OneEmissionStepPerCycle ==
    /\ [][(aggPc = "keys" => aggPc' \in {"keys", "produce", "idle"})
          /\ (aggPc = "produce" => aggPc' \in {"produce", "log"})
          /\ (aggPc = "log" => aggPc' \in {"log", "del", "unlock"})
          /\ (aggPc = "del" => aggPc' \in {"del", "unlock"})
          /\ (aggPc = "unlock" => aggPc' \in {"unlock", "idle"})]_vars
    /\ [][kafka' # kafka => (aggPc = "produce" /\ aggPc' = "log")]_vars
    /\ [][logFile' # logFile => (aggPc = "log" /\ aggPc' # "log")]_vars
    /\ [][(aggPc \in {"keys", "produce", "log"}) => DOMAIN store \subseteq DOMAIN store']_vars
    /\ [](InCycle => uniqueCount = Len(keys))

\* C16 as stated: every cycle with a snapshot hands one message to the stream
\* and appends one line to the log file, both with the number of keys of the
\* snapshot, after the snapshot and before the first DEL.
C16_EmitsExactlyOnce ==
    /\ OneEmissionStepPerCycle
    /\ [][(aggPc = "produce" /\ aggPc' # "produce") =>
             kafka' = Append(kafka, FmtMessage(Len(keys)))]_vars
    /\ [][(aggPc = "log" /\ aggPc' # "log") =>
             logFile' = Append(logFile, FmtLogLine(Len(keys)))]_vars

\* C16 as amended: every cycle with a snapshot makes one Produce call and one
\* append to the log file, after the snapshot and before the first DEL; a
\* call that succeeds adds one message, or one line, with the number of keys
\* of the snapshot, and a call that fails adds nothing.
C16_EmitsOnceUnlessSinkFails ==
    /\ OneEmissionStepPerCycle
    /\ [][(aggPc = "produce" /\ aggPc' # "produce") =>
             \/ kafka' = Append(kafka, FmtMessage(Len(keys))) /\ aggErr' = ""
             \/ kafka' = kafka /\ aggErr' = "kafka"]_vars
    /\ [][(aggPc = "log" /\ aggPc' # "log") =>
             \/ logFile' = Append(logFile, FmtLogLine(Len(keys))) /\ aggErr' = ""
             \/ logFile' = logFile /\ aggErr' = "file"]_vars

\* the first cycle with a snapshot has reported its two keys to both sinks
\* and has not deleted any of them yet
C16_Witness ==
    /\ aggPc = "del"
    /\ idx = 0
    /\ Len(keys) = 2
    /\ kafka = <<FmtMessage(2)>>
    /\ logFile = <<FmtLogLine(2)>>
    /\ \A k \in SnapshotKeys : k \in DOMAIN store

\* C17: a cycle that has started comes back to the ticker with the mutex
\* released, whether KEYS failed or not; the mutex is never locked while the
\* aggregator waits for a tick; and a tick that waits in the channel is
\* received.
C17_CycleReturnsToIdle ==
    /\ (aggPc # "idle") ~> (aggPc = "idle" /\ ~mutex)
    /\ [](aggPc = "idle" => ~mutex)
    /\ [](aggPc = "lock" => ~mutex)
    /\ tickPending ~> ~tickPending

\* a first cycle went through to the end and wrote its line, the enumeration
\* of a second one failed, and the aggregator waits for a tick with the mutex
\* released
C17_Witness ==
    /\ aggPc = "idle"
    /\ ~mutex
    /\ aggErr = "keys"
    /\ Len(logFile) = 1
    /\ ~tickPending

\* the time a record has left before it expires
Remaining(st, k, t) == st[k].at + st[k].ttl - t

\* this step is the one of h's request in which SETNX finds the key
DuplicateStep(h) == hs[h].pc = "track" /\ hs'[h].pc # "track" /\ hs'[h].resp = Conflict

\* C18: the step in which a request is found to be a duplicate leaves the
\* record of its key, and so the time the record has left, as it is; a record
\* is written only by the step of a request that passes the uniqueness
\* check, which gives it one minute from that moment; and a record is visible
\* exactly until one minute has passed since it was written.
C18_DuplicateKeepsExpiry ==
    /\ [][\A h \in Handlers :
             DuplicateStep(h) =>
                 /\ Live(KeyOf(h))
                 /\ store' = store
                 /\ Remaining(store', KeyOf(h), now') = Remaining(store, KeyOf(h), now)]_vars
    /\ [][\A k \in DOMAIN store' :
             (k \notin DOMAIN store \/ store'[k] # store[k]) =>
                 /\ \E h \in Handlers : AcceptStep(h) /\ KeyOf(h) = k
                 /\ store'[k] = [at |-> now, ttl |-> Minute]]_vars
    /\ [](\A k \in DOMAIN store : Live(k) <=> now < store[k].at + Minute)

\* an identifier was accepted at time 0 and submitted once more in the
\* minute that followed: the record is still the one written at time 0, and
\* it has expired now that the minute has passed
C18_Witness ==
    \E g, h \in Handlers :
        /\ hs[g].isUnique /\ Called(g)
        /\ hs[h].pc = "done" /\ hs[h].resp = Conflict
        /\ hs[h].id = hs[g].id /\ hs[h].gen = hs[g].gen
        /\ KeyOf(g) \in DOMAIN store
        /\ store[KeyOf(g)].at = 0
        /\ now = Minute
        /\ ~Live(KeyOf(g))

\* h's request inserted its key and its notification failed
NotifyFailed(h) == hs[h].pc = "done" /\ hs[h].isUnique /\ hs[h].err = "post"

\* C19: the step in which the notification of a request fails leaves the
\* store as it is, so the record the request inserted stays; while that
\* record is in the store, neither expired nor deleted by a cycle, a snapshot
\* that is taken holds its key and counts it, and a request for the same
\* identifier is answered Duplicate.
C19_NotifyFailureKeepsKey ==
    /\ [][\A h \in Handlers :
             (hs[h].pc = "notify" /\ hs'[h].pc = "done" /\ hs'[h].err = "post") =>
                 /\ store' = store
                 /\ HoldsRecord(h) => HoldsRecord(h)']_vars
    /\ [][SnapshotTaken =>
             \A h \in Handlers :
                 (NotifyFailed(h) /\ HoldsRecord(h)) =>
                     /\ \E i \in 1..Len(keys') : keys'[i] = KeyOf(h)
                     /\ uniqueCount' >= 1]_vars
    /\ [][\A h \in Handlers :
             (/\ TrackReturns(h)
              /\ \E g \in Handlers \ {h} :
                    NotifyFailed(g) /\ HoldsRecord(g) /\ hs[g].id = hs[h].id)
                 => ~hs'[h].isUnique /\ hs'[h].resp = Conflict]_vars

\* a request inserted its key and got 500 for its failed notification, a
\* second request for the same identifier was answered Duplicate, and the
\* cycle that followed has the key in its snapshot and counts 1
C19_Witness ==
    \E g, h \in Handlers :
        /\ NotifyFailed(g) /\ HoldsRecord(g)
        /\ hs[h].pc = "done" /\ hs[h].resp = Conflict
        /\ hs[h].id = hs[g].id /\ hs[h].gen = hs[g].gen
        /\ aggPc = "produce"
        /\ keys = <<KeyOf(g)>>
        /\ uniqueCount = 1

\* h's record is in the store and was inserted before the last snapshot
\* taken: it was visible to that snapshot, which counted it
CountedBefore(h) == HoldsRecord(h) /\ h \notin sinceSnap

\* C20: a record that a snapshot counts was not counted by a snapshot
\* before; a key is counted again only after its identifier was accepted
\* again.
C20_CountedAtMostOnce ==
    [][SnapshotTaken => \A h \in Handlers : ~CountedBefore(h)]_vars

====
